---- MODULE Spec2Model ----
(***************************************************************************)
(* BabaMuskBot (src/baba_musk_bot/app.py): the trading-calendar walks,     *)
(* the market-status probe, the retrying price fetch, the year-to-date     *)
(* calculation, the company description, the crypto prices and the         *)
(* Telegram webhook, as a state machine.                                   *)
(*                                                                         *)
(* Dates are day offsets from January 1 of the current year (0 = Jan 1,    *)
(* negative = the previous December, >= YearLen = the next year).          *)
(* Weekdays are Python's date.weekday(): Monday = 0 ... Sunday = 6.        *)
(* Optional values (Python None / a value) are <<>> / <<v>>.               *)
(***************************************************************************)
EXTENDS Integers, Sequences, FiniteSets

VARIABLES
    apiKey,        \* POLYGON_API_KEY is set (module global, read at import)
    startWd,       \* weekday of January 1 of the current year
    leap,          \* the current year is a leap year
    today,         \* what get_today() returns in this invocation
    call,          \* the public function being executed, "idle" when none
    pc,            \* position inside that function
    current_date,  \* loop variable of the running calendar walk
    iter,          \* iterations of the walk's for-loop completed so far
    probes,        \* implied_market_status calls of the running walk, in order
    numRequests,   \* HTTP requests issued by the running walk
    lastResp,      \* the upstream response handled by the latest step
    walkEnd,       \* how the latest walk ended: found / crossed / exhausted
    closedLeft,    \* environment: non-open answers the upstream may still give
    down,          \* environment: the upstream answers no probe with "open"
    walkRet,       \* what the latest walk returned
    original_symbol, \* ytd's argument, as the user typed it
    symbol,        \* the validated symbol (leading '$' stripped)
    numLookups,    \* reference lookups issued by the running call
    first_date,    \* _first_trading_date_obj
    last_date,     \* _last_trading_date_obj
    fetchKey,      \* key_to_extract of the running price fetch
    attempts,      \* requests made so far by each price fetch
    sleeps,        \* backoff waits made so far by each price fetch
    first_day_open,  \* what the opening-price fetch returned
    last_day_close,  \* what the closing-price fetch returned
    divided,       \* the percentage division was evaluated
    result_parts,  \* coin's lines so far
    requested,     \* coin's requests so far, in order, with their answers
    oddLeft,       \* environment: answers other than the good one the spot
                   \* endpoint may still give
    event,         \* the event webhook was called with
    handlerCalls,  \* calls of ytd, describe and coin made by webhook
    response_text, \* webhook's response_text
    sent,          \* calls of bot.sendMessage made by webhook
    ret            \* return value of the finished call

walkVars == <<current_date, iter, probes, numRequests, walkEnd, walkRet>>
envVars == <<closedLeft, down>>
cfgVars == <<apiKey, startWd, leap>>
ytdVars == <<original_symbol, symbol, numLookups, first_date, last_date>>
fetchVars == <<fetchKey, attempts, sleeps, first_day_open, last_day_close, divided>>
coinVars == <<result_parts, requested, oddLeft>>
hookVars == <<event, handlerCalls, response_text, sent>>

vars == <<cfgVars, today, call, pc, walkVars, lastResp, envVars, ytdVars,
          fetchVars, coinVars, hookVars, ret>>

----------------------------------------------------------------------------
(* Bounds of the model *)

\* get_today() yields one of the first MaxToday + 1 days of the year; with
\* the seven weekdays January 1 can fall on, today falls on every weekday
MaxToday == 1
\* non-open probe answers an upstream that is up gives within one walk of
\* ytd; the walks called on their own meet any number of them
MaxClosed == 1
\* answers other than the good one a spot-price endpoint that is up gives
\* within one call of coin
MaxOdd == 1

----------------------------------------------------------------------------
(* Program constants *)

\* for _ in range(366)
FirstWalkIterations == 366
\* for _ in range(14)
LastWalkIterations == 14

None == <<>>
Some(v) == <<v>>
NoResp == [kind |-> "none"]
NoEvent == [httpMethod |-> "none"]
Unlimited == 0 - 1

----------------------------------------------------------------------------
(* datetime.date arithmetic *)

YearLen == IF leap THEN 366 ELSE 365

\* date.weekday()
Weekday(d) == (startWd + d + 70) % 7

\* current_date.year > today.year
InNextYear(d) == d >= YearLen

MonthLengths ==
    <<31, IF leap THEN 29 ELSE 28, 31, 30, 31, 30, 31, 31, 30, 31, 30, 31>>

RECURSIVE MonthDay(_, _)
MonthDay(m, d) ==
    IF d < MonthLengths[m] THEN <<m, d + 1>> ELSE MonthDay(m + 1, d - MonthLengths[m])

\* current_date.strftime('%Y-%m-%d'): <<year offset, month, day of month>>
DateStr(d) ==
    IF d < 0 THEN <<0 - 1, 12, 32 + d>>
    ELSE LET md == MonthDay(1, d) IN <<0, md[1], md[2]>>

----------------------------------------------------------------------------
(* Upstream answers of the daily open-close endpoint *)

Statuses == {"OK", "NOT_FOUND", "DELAYED", "absent"}
Absent == [present |-> FALSE]
Field(v) == [present |-> TRUE, value |-> v]
\* JSON values of a field: null, a number, a string that is no number
Null == [t |-> "null"]
Num(n) == [t |-> "num", n |-> n]
Str == [t |-> "str"]

\* bodies the endpoint can answer: a transport/HTTP error, a body that is not
\* JSON, or a JSON object with an optional status and an optional field. The
\* canonical status "OK" comes with every value of the field; the other
\* statuses come without the field, with null and with one number. Every JSON
\* body is an object, as the endpoints answer; a JSON array or scalar is
\* outside the model.
OpenCloseResponses(values) ==
    {[kind |-> "network_error"], [kind |-> "not_json"]}
    \cup {[kind |-> "json", status |-> "OK", field |-> f] :
            f \in {Absent} \cup {Field(v) : v \in values}}
    \cup {[kind |-> "json", status |-> s, field |-> f] :
            s \in Statuses \ {"OK"}, f \in {Absent, Field(Null), Field(Num(1))}}

ProbeValues == {Null, Num(1)}

\* what the upstream means by its answer: the market was open on that date
AnswersOpen(resp) ==
    resp.kind = "json" /\ resp.status = "OK" /\ resp.field.present

\* answers the environment can give to the next probe of the running walk:
\* an upstream that is down fails every request, one that is up gives at most
\* closedLeft further non-open answers (no limit when closedLeft = Unlimited)
ProbeAnswers ==
    IF down THEN {[kind |-> "network_error"]}
    ELSE {r \in OpenCloseResponses(ProbeValues) :
            AnswersOpen(r) \/ closedLeft # 0}

----------------------------------------------------------------------------
(* implied_market_status *)

\* an exception handler that reports the date open
implied_market_status_ErrorIsOpen(key, resp) ==
    IF ~key THEN FALSE
    ELSE IF resp.kind = "network_error" THEN TRUE
    ELSE IF resp.kind = "not_json" THEN TRUE
    ELSE resp.status = "OK" /\ resp.field.present

\* the lenient test of fetch_with_retry used for the probe
implied_market_status_Lenient(key, resp) ==
    IF ~key THEN FALSE
    ELSE IF resp.kind = "network_error" THEN FALSE
    ELSE IF resp.kind = "not_json" THEN FALSE
    ELSE resp.field.present /\ resp.status # "NOT_FOUND"

implied_market_status(key, resp) ==
    IF ~key THEN FALSE
    ELSE IF resp.kind = "network_error" THEN FALSE
    ELSE IF resp.kind = "not_json" THEN FALSE
    ELSE IF resp.status = "OK" /\ resp.field.present THEN TRUE
    ELSE IF resp.status = "NOT_FOUND" THEN FALSE
    ELSE FALSE

----------------------------------------------------------------------------
(* first_trading_date / last_trading_date: one loop iteration each *)

\* the weekend steps of the backward walk used in the forward walk
FirstAdvance_SwappedWeekend(d, wd) ==
    IF wd < 5 THEN d + 1
    ELSE IF wd = 5 THEN d + 1
    ELSE d + 2

\* a forward walk that stays on a weekday it found closed
FirstAdvance_StaysOnClosedDay(d, wd) ==
    IF wd < 5 THEN d
    ELSE IF wd = 5 THEN d + 2
    ELSE d + 1

\* the date the forward walk moves to when it does not return
FirstAdvance(d, wd) ==
    IF wd < 5 THEN d + 1
    ELSE IF wd = 5 THEN d + 2
    ELSE d + 1

\* the weekend steps of the forward walk used in the backward walk
LastRetreat_SwappedWeekend(d, wd) ==
    IF wd < 5 THEN d - 1
    ELSE IF wd = 5 THEN d - 2
    ELSE d - 1

\* a backward walk that steps over a day after every closed weekday
LastRetreat_TwoDays(d, wd) ==
    IF wd < 5 THEN d - 2
    ELSE IF wd = 5 THEN d - 1
    ELSE d - 2

\* the date the backward walk moves to when it does not return
LastRetreat(d, wd) ==
    IF wd < 5 THEN d - 1
    ELSE IF wd = 5 THEN d - 1
    ELSE d - 2

\* an off-by-one weekday test that takes Saturday for a weekday
Probed_IncludesSaturday(wd) == wd <= 5

\* the walk probes only Monday to Friday
Probed(wd) == wd < 5

\* the answers one iteration can meet: none when no request is issued
StepAnswers ==
    IF Probed(Weekday(current_date)) /\ apiKey THEN ProbeAnswers ELSE {NoResp}

Budget(resp) ==
    IF resp.kind # "none" /\ ~AnswersOpen(resp) /\ closedLeft > 0
    THEN closedLeft - 1 ELSE closedLeft

\* bookkeeping shared by both walks for an iteration that met answer resp
Observe(resp, open) ==
    /\ lastResp' = resp
    /\ closedLeft' = Budget(resp)
    /\ numRequests' = IF resp.kind = "none" THEN numRequests ELSE numRequests + 1
    /\ probes' = IF Probed(Weekday(current_date))
                 THEN Append(probes, [date |-> current_date, open |-> open])
                 ELSE probes

\* where a finished walk hands its result: to the caller of the standalone
\* function, or back into ytd
Finish(result, back) ==
    /\ walkRet' = result
    /\ IF call = "ytd"
       THEN pc' = back /\ ret' = ret
       ELSE pc' = "done" /\ ret' = result

FirstStep ==
    /\ call \in {"first_trading_date", "ytd"}
    /\ pc = "first_loop"
    /\ \E resp \in StepAnswers :
         LET wd == Weekday(current_date)
             open == Probed(wd) /\ implied_market_status(apiKey, resp)
             next == FirstAdvance(current_date, wd)
         IN /\ Observe(resp, open)
            /\ iter' = iter + 1
            /\ IF open
               THEN /\ current_date' = current_date
                    /\ walkEnd' = "found"
                    /\ Finish(Some(current_date), "first_returned")
               ELSE /\ current_date' = next
                    /\ IF InNextYear(next)
                       THEN walkEnd' = "crossed" /\ Finish(None, "first_returned")
                       ELSE IF iter + 1 = FirstWalkIterations
                       THEN walkEnd' = "exhausted" /\ Finish(None, "first_returned")
                       ELSE UNCHANGED <<walkEnd, walkRet, pc, ret>>
    /\ UNCHANGED <<cfgVars, today, call, down, ytdVars, fetchVars>>
    /\ UNCHANGED <<coinVars, hookVars>>

LastStep ==
    /\ call \in {"last_trading_date", "ytd"}
    /\ pc = "last_loop"
    /\ \E resp \in StepAnswers :
         LET wd == Weekday(current_date)
             open == Probed(wd) /\ implied_market_status(apiKey, resp)
             next == LastRetreat(current_date, wd)
         IN /\ Observe(resp, open)
            /\ iter' = iter + 1
            /\ IF open
               THEN /\ current_date' = current_date
                    /\ walkEnd' = "found"
                    /\ Finish(Some(current_date), "last_returned")
               ELSE /\ current_date' = next
                    /\ IF iter + 1 = LastWalkIterations
                       THEN walkEnd' = "exhausted" /\ Finish(None, "last_returned")
                       ELSE UNCHANGED <<walkEnd, walkRet, pc, ret>>
    /\ UNCHANGED <<cfgVars, today, call, down, ytdVars, fetchVars>>
    /\ UNCHANGED <<coinVars, hookVars>>

\* state of a walk before its first iteration
StartWalk(d) ==
    /\ current_date' = d
    /\ iter' = 0
    /\ probes' = <<>>
    /\ numRequests' = 0
    /\ lastResp' = NoResp
    /\ walkEnd' = "running"
    /\ walkRet' = None

\* first_trading_date(): today = get_today(); current_date = date(today.year, 1, 1)
CallFirstTradingDate ==
    /\ call = "idle"
    /\ call' = "first_trading_date"
    /\ pc' = "first_loop"
    /\ StartWalk(0)
    /\ closedLeft' = Unlimited
    /\ down' = FALSE
    /\ UNCHANGED <<cfgVars, today, ytdVars, fetchVars, ret>>
    /\ UNCHANGED <<coinVars, hookVars>>

\* last_trading_date(): current_date = get_today()
CallLastTradingDate ==
    /\ call = "idle"
    /\ call' = "last_trading_date"
    /\ pc' = "last_loop"
    /\ \E t \in 0..MaxToday :
         /\ today' = t
         /\ StartWalk(t)
    /\ closedLeft' = Unlimited
    /\ down' = FALSE
    /\ UNCHANGED <<cfgVars, ytdVars, fetchVars, ret>>
    /\ UNCHANGED <<coinVars, hookVars>>

NoCounts == [open |-> 0, close |-> 0]

\* the call has returned; the caller may invoke the next function
Return ==
    /\ pc = "done"
    /\ call # "idle"
    /\ call' = "idle"
    /\ pc' = "idle"
    /\ StartWalk(0)
    /\ today' = 0
    /\ closedLeft' = Unlimited
    /\ down' = FALSE
    /\ original_symbol' = <<>>
    /\ symbol' = <<>>
    /\ numLookups' = 0
    /\ first_date' = None
    /\ last_date' = None
    /\ fetchKey' = "open"
    /\ attempts' = NoCounts
    /\ sleeps' = NoCounts
    /\ first_day_open' = None
    /\ last_day_close' = None
    /\ divided' = FALSE
    /\ result_parts' = <<>>
    /\ requested' = <<>>
    /\ oddLeft' = 0
    /\ event' = NoEvent
    /\ handlerCalls' = <<>>
    /\ response_text' = None
    /\ sent' = <<>>
    /\ ret' = None
    /\ UNCHANGED cfgVars

----------------------------------------------------------------------------
(* parse_and_validate_ticker_symbol *)

\* what users type: an optional '$' and letters of either case
Symbols == {<<"$", "a">>, <<"a">>}

UpperChar(c) == IF c = "a" THEN "A" ELSE IF c = "b" THEN "B" ELSE c

\* str.upper()
Upper(str) == [i \in 1..Len(str) |-> UpperChar(str[i])]

\* a parser that leaves the '$'
StripDollar_Never(str) == str

\* symbol[1:] if symbol.startswith('$') else symbol
StripDollar(str) ==
    IF Len(str) > 0 /\ str[1] = "$" THEN Tail(str) ELSE str

\* answers of the reference endpoint /v3/reference/tickers/<symbol>
LookupResponses ==
    {[kind |-> "network_error"], [kind |-> "not_json"]}
    \cup {[kind |-> "json", status |-> s, results |-> r] :
            s \in {"OK", "NOT_FOUND"}, r \in {"record", "null"}}

\* a parser that quotes the symbol it looked up
parse_and_validate_ticker_symbol_QuotesStripped(str, resp) ==
    IF resp.kind = "network_error"
    THEN [ok |-> FALSE, error |-> "network", text |-> StripDollar(str)]
    ELSE IF resp.kind = "not_json"
    THEN [ok |-> FALSE, error |-> "format", text |-> StripDollar(str)]
    ELSE IF resp.status = "NOT_FOUND" \/ resp.results = "null"
    THEN [ok |-> FALSE, error |-> "not_found", text |-> StripDollar(str)]
    ELSE [ok |-> TRUE, symbol |-> StripDollar(str)]

\* the validated symbol, or the ValueError the function raises
parse_and_validate_ticker_symbol(str, resp) ==
    IF resp.kind = "network_error"
    THEN [ok |-> FALSE, error |-> "network", text |-> str]
    ELSE IF resp.kind = "not_json"
    THEN [ok |-> FALSE, error |-> "format", text |-> str]
    ELSE IF resp.status = "NOT_FOUND" \/ resp.results = "null"
    THEN [ok |-> FALSE, error |-> "not_found", text |-> str]
    ELSE [ok |-> TRUE, symbol |-> StripDollar(str)]

----------------------------------------------------------------------------
(* ytd.fetch_with_retry *)

\* max_retries = 3
max_retries == 3

\* prices the open-close endpoint reports, besides null and a non-number
Prices == {0, 1, 2}
PriceValues == {Null, Str} \cup {Num(p) : p \in Prices}

\* data[key_to_extract] as a Python value: JSON null is None
PyValue(v) == IF v = Null THEN None ELSE Some(v)

\* only the canonical status is accepted
Accepted_Strict(resp) ==
    /\ resp.kind = "json"
    /\ resp.status = "OK" /\ resp.field.present

\* the attempt returns data[key_to_extract]
Accepted(resp) ==
    /\ resp.kind = "json"
    /\ \/ resp.status = "OK" /\ resp.field.present
       \/ resp.field.present /\ resp.status # "NOT_FOUND"

\* a loop that stops one attempt early
Retries_OneFewer(n, resp) == n < max_retries - 1

\* a loop that gives up on an explicit not-found
Retries_NotFoundTerminal(n, resp) ==
    n < max_retries /\ ~(resp.kind = "json" /\ resp.status = "NOT_FOUND")

\* a loop that tries until an attempt is accepted
Retries_UntilAccepted(n, resp) == TRUE

\* the loop goes on after a failed attempt number n (counted from 1)
Retries(n, resp) == n < max_retries

\* a loop that waits after every failed attempt, the last included
Sleeps_AfterEveryFailure(n, resp) == TRUE

\* time.sleep(1) follows the failed attempt number n
Sleeps(n, resp) == n < max_retries

----------------------------------------------------------------------------
(* ytd *)

\* only the opening price is tested for None
PricingFailed_OnlyOpen(open, close) == open = None

\* if first_day_open is None or last_day_close is None
PricingFailed(open, close) == open = None \/ close = None

\* float(x) returns: it raises TypeError for None and ValueError for a string
\* that is no number
Converts(x) == x # None /\ x[1] # Str

\* float(x), for an x it converts
FloatOf(x) == x[1].n

\* the test for a zero opening price left out
ZeroOpen_Never(open) == FALSE

\* if first_day_open_float == 0
ZeroOpen(open) == open = 0

\* the subtraction of 1 left out
percent_change_NoSubtraction(open, close) == (close * 100) \div open

\* ((last_day_close_float / first_day_open_float) - 1) * 100, for open # 0
percent_change(open, close) == ((close * 100) \div open) - 100

\* the division of percent_change is evaluated on the way to ytd's report
Divides(open, close) ==
    /\ ~PricingFailed(open, close)
    /\ Converts(open) /\ Converts(close)
    /\ ~ZeroOpen(FloatOf(open))

\* what ytd returns once both fetches have returned; a division by zero raises
\* ZeroDivisionError, which ytd does not catch
YtdReport(sym, first, open, close) ==
    IF PricingFailed(open, close)
    THEN [kind |-> "pricing_failed", symbol |-> Upper(sym)]
    ELSE IF ~(Converts(open) /\ Converts(close))
    THEN [kind |-> "price_format_error", symbol |-> Upper(sym)]
    ELSE IF ZeroOpen(FloatOf(open))
    THEN [kind |-> "zero_open", symbol |-> Upper(sym), date |-> DateStr(first[1])]
    ELSE IF FloatOf(open) = 0
    THEN [kind |-> "raised", error |-> "ZeroDivisionError"]
    ELSE LET pct == percent_change(FloatOf(open), FloatOf(close))
         IN [kind |-> "report", symbol |-> Upper(sym), percent |-> pct,
             move |-> IF pct > 0 THEN "up" ELSE "down"]

\* the upstream of one calendar walk inside ytd: down, or good for at most
\* MaxClosed non-open answers
StartUpstream ==
    /\ down' \in BOOLEAN
    /\ closedLeft' = MaxClosed

CallYtd ==
    /\ call = "idle"
    /\ call' = "ytd"
    /\ \E str \in Symbols : original_symbol' = str
    /\ IF ~apiKey
       THEN pc' = "done" /\ ret' = [kind |-> "config_error"]
       ELSE pc' = "validate" /\ ret' = ret
    /\ UNCHANGED <<cfgVars, today, walkVars, lastResp, envVars, symbol,
                   numLookups, first_date, last_date, fetchVars>>
    /\ UNCHANGED <<coinVars, hookVars>>

\* symbol = parse_and_validate_ticker_symbol(original_symbol), then the call
\* of first_trading_date()
YtdValidate ==
    /\ call = "ytd"
    /\ pc = "validate"
    /\ numLookups' = numLookups + 1
    /\ \E resp \in LookupResponses :
         LET parsed == parse_and_validate_ticker_symbol(original_symbol, resp)
         IN IF parsed.ok
            THEN /\ symbol' = parsed.symbol
                 /\ pc' = "first_loop"
                 /\ StartWalk(0)
                 /\ StartUpstream
                 /\ ret' = ret
            ELSE /\ pc' = "done"
                 /\ ret' = [kind |-> "value_error", error |-> parsed.error,
                            text |-> parsed.text]
                 /\ lastResp' = resp
                 /\ UNCHANGED <<symbol, walkVars, envVars>>
    /\ UNCHANGED <<cfgVars, today, call, original_symbol, first_date,
                   last_date, fetchVars>>
    /\ UNCHANGED <<coinVars, hookVars>>

\* _first_trading_date_obj = first_trading_date(), then the call of
\* last_trading_date()
YtdCallLast ==
    /\ call = "ytd"
    /\ pc = "first_returned"
    /\ first_date' = walkRet
    /\ pc' = "last_loop"
    /\ \E t \in 0..MaxToday :
         /\ today' = t
         /\ StartWalk(t)
    /\ StartUpstream
    /\ UNCHANGED <<cfgVars, call, original_symbol, symbol, numLookups,
                   last_date, fetchVars, ret>>
    /\ UNCHANGED <<coinVars, hookVars>>

\* the two checks of the dates in the other order
YtdCheckDates_LastTestedFirst ==
    /\ call = "ytd"
    /\ pc = "last_returned"
    /\ last_date' = walkRet
    /\ IF walkRet = None
       THEN pc' = "done" /\ ret' = [kind |-> "no_last_date", symbol |-> Upper(symbol)]
       ELSE IF first_date = None
       THEN pc' = "done" /\ ret' = [kind |-> "no_first_date", symbol |-> Upper(symbol)]
       ELSE pc' = "fetch" /\ ret' = ret
    /\ fetchKey' = "open"
    /\ lastResp' = NoResp
    /\ UNCHANGED <<cfgVars, today, call, walkVars, envVars, original_symbol,
                   symbol, numLookups, first_date, attempts, sleeps,
                   first_day_open, last_day_close, divided>>
    /\ UNCHANGED <<coinVars, hookVars>>

\* _last_trading_date_obj = last_trading_date(), then the two checks of the
\* dates
YtdCheckDates ==
    /\ call = "ytd"
    /\ pc = "last_returned"
    /\ last_date' = walkRet
    /\ IF first_date = None
       THEN pc' = "done" /\ ret' = [kind |-> "no_first_date", symbol |-> Upper(symbol)]
       ELSE IF walkRet = None
       THEN pc' = "done" /\ ret' = [kind |-> "no_last_date", symbol |-> Upper(symbol)]
       ELSE pc' = "fetch" /\ ret' = ret
    /\ fetchKey' = "open"
    /\ lastResp' = NoResp
    /\ UNCHANGED <<cfgVars, today, call, walkVars, envVars, original_symbol,
                   symbol, numLookups, first_date, attempts, sleeps,
                   first_day_open, last_day_close, divided>>
    /\ UNCHANGED <<coinVars, hookVars>>

\* a ytd that gives up when the opening price could not be fetched
FetchReturn_SkipsCloseOnFailure(value) ==
    IF fetchKey = "open"
    THEN /\ first_day_open' = value
         /\ fetchKey' = "close"
         /\ pc' = IF value = None THEN "compute" ELSE "fetch"
         /\ UNCHANGED last_day_close
    ELSE /\ last_day_close' = value
         /\ pc' = "compute"
         /\ UNCHANGED <<first_day_open, fetchKey>>

\* what fetch_with_retry returns to ytd
FetchReturn(value) ==
    IF fetchKey = "open"
    THEN /\ first_day_open' = value
         /\ fetchKey' = "close"
         /\ pc' = "fetch"
         /\ UNCHANGED last_day_close
    ELSE /\ last_day_close' = value
         /\ pc' = "compute"
         /\ UNCHANGED <<first_day_open, fetchKey>>

\* one iteration of the retry loop: the request and what is made of the answer
FetchAttempt ==
    /\ call = "ytd"
    /\ pc = "fetch"
    /\ \E resp \in OpenCloseResponses(PriceValues) :
         LET n == attempts[fetchKey] + 1
         IN /\ attempts' = [attempts EXCEPT ![fetchKey] = n]
            /\ lastResp' = resp
            /\ IF Accepted(resp)
               THEN FetchReturn(PyValue(resp.field.value)) /\ sleeps' = sleeps
               ELSE /\ sleeps' = IF Sleeps(n, resp)
                                 THEN [sleeps EXCEPT ![fetchKey] = @ + 1]
                                 ELSE sleeps
                    /\ IF Retries(n, resp)
                       THEN UNCHANGED <<pc, fetchKey, first_day_open, last_day_close>>
                       ELSE FetchReturn(None)
    /\ UNCHANGED <<cfgVars, today, call, walkVars, envVars, ytdVars, divided, ret>>
    /\ UNCHANGED <<coinVars, hookVars>>

\* the checks of the two prices, the percentage and the report
YtdCompute ==
    /\ call = "ytd"
    /\ pc = "compute"
    /\ ret' = YtdReport(symbol, first_date, first_day_open, last_day_close)
    /\ divided' = Divides(first_day_open, last_day_close)
    /\ pc' = "done"
    /\ lastResp' = NoResp
    /\ UNCHANGED <<cfgVars, today, call, walkVars, envVars, ytdVars,
                   fetchKey, attempts, sleeps, first_day_open, last_day_close>>
    /\ UNCHANGED <<coinVars, hookVars>>

----------------------------------------------------------------------------
(* describe *)

\* a JSON string with its text
Text(s) == [t |-> "text", s |-> s]

\* a JSON object with its members
Object(members) == [t |-> "object", members |-> members]

\* values of 'description' in a reference record
Descriptions == {Null, Text(""), Text("about")}

\* answers of the reference endpoint to describe's own request: 'results'
\* missing, null, or a record with or without a description
DescriptionResponses ==
    {[kind |-> "network_error"], [kind |-> "not_json"]}
    \cup {[kind |-> "json", results |-> r] :
            r \in {Absent, Field(Null)}
                  \cup {Field(Object([description |-> d])) :
                          d \in {Absent} \cup {Field(v) : v \in Descriptions}}}

\* the value of the local 'description' after the request
DescriptionOf(resp) ==
    IF resp.results.present /\ resp.results.value # Null
       /\ resp.results.value.members.description.present
    THEN PyValue(resp.results.value.members.description.value)
    ELSE None

\* the truth value of 'description': None and the empty string are false
HasDescription(description) == description # None /\ description[1] # Text("")

\* a body that is not JSON handled by the clause for a RequestException
describe_report_FormatAsNetwork(sym, resp) ==
    IF resp.kind \in {"network_error", "not_json"}
    THEN [kind |-> "describe_network_error", symbol |-> Upper(sym),
          msg |-> "\nCould not fetch description for {ticker.upper()} due to a network issue.\n"]
    ELSE IF ~HasDescription(DescriptionOf(resp))
    THEN [kind |-> "no_description", symbol |-> Upper(sym),
          msg |-> "\nNo description found for {ticker.upper()}.\n"]
    ELSE [kind |-> "description", symbol |-> Upper(sym),
          description |-> DescriptionOf(resp)[1].s,
          msg |-> "\n<b>{0}</b>\n{1}\n"]

\* what describe returns for a validated symbol and the answer to its request;
\* a body that is not JSON raises json.JSONDecodeError, which the clause
\* naming it handles
describe_report(sym, resp) ==
    IF resp.kind = "network_error"
    THEN [kind |-> "describe_network_error", symbol |-> Upper(sym),
          msg |-> "\nCould not fetch description for {ticker.upper()} due to a network issue.\n"]
    ELSE IF resp.kind = "not_json"
    THEN [kind |-> "describe_format_error", symbol |-> Upper(sym),
          msg |-> "\nError processing company description data for {ticker.upper()}.\n"]
    ELSE IF ~HasDescription(DescriptionOf(resp))
    THEN [kind |-> "no_description", symbol |-> Upper(sym),
          msg |-> "\nNo description found for {ticker.upper()}.\n"]
    ELSE [kind |-> "description", symbol |-> Upper(sym),
          description |-> DescriptionOf(resp)[1].s,
          msg |-> "\n<b>{0}</b>\n{1}\n"]

\* describe without the test of the credential
CallDescribe_NoKeyTest ==
    /\ call = "idle"
    /\ call' = "describe"
    /\ \E str \in Symbols : original_symbol' = str
    /\ pc' = "validate" /\ ret' = ret
    /\ UNCHANGED <<cfgVars, today, walkVars, lastResp, envVars, symbol,
                   numLookups, first_date, last_date, fetchVars, coinVars,
                   hookVars>>

CallDescribe ==
    /\ call = "idle"
    /\ call' = "describe"
    /\ \E str \in Symbols : original_symbol' = str
    /\ IF ~apiKey
       THEN pc' = "done" /\ ret' = [kind |-> "config_error"]
       ELSE pc' = "validate" /\ ret' = ret
    /\ UNCHANGED <<cfgVars, today, walkVars, lastResp, envVars, symbol,
                   numLookups, first_date, last_date, fetchVars, coinVars,
                   hookVars>>

\* ticker = parse_and_validate_ticker_symbol(original_symbol)
DescribeValidate ==
    /\ call = "describe"
    /\ pc = "validate"
    /\ numLookups' = numLookups + 1
    /\ \E resp \in LookupResponses :
         LET parsed == parse_and_validate_ticker_symbol(original_symbol, resp)
         IN /\ lastResp' = resp
            /\ IF parsed.ok
               THEN /\ symbol' = parsed.symbol
                    /\ pc' = "describe_fetch"
                    /\ ret' = ret
               ELSE /\ pc' = "done"
                    /\ ret' = [kind |-> "value_error", error |-> parsed.error,
                               text |-> parsed.text]
                    /\ symbol' = symbol
    /\ UNCHANGED <<cfgVars, today, call, walkVars, envVars,
                   original_symbol, first_date, last_date, fetchVars,
                   coinVars, hookVars>>

\* the request for the reference record and the report made of its answer
DescribeFetch ==
    /\ call = "describe"
    /\ pc = "describe_fetch"
    /\ numLookups' = numLookups + 1
    /\ \E resp \in DescriptionResponses :
         /\ lastResp' = resp
         /\ ret' = describe_report(symbol, resp)
    /\ pc' = "done"
    /\ UNCHANGED <<cfgVars, today, call, walkVars, envVars, original_symbol,
                   symbol, first_date, last_date, fetchVars, coinVars,
                   hookVars>>

----------------------------------------------------------------------------
(* coin *)

pairings_to_fetch ==
    <<[base |-> "BTC", currency |-> "USD", base_name |-> "Bitcoin"],
      [base |-> "ETH", currency |-> "USD", base_name |-> "Ethereum"],
      [base |-> "ADA", currency |-> "USD", base_name |-> "Cardano"],
      [base |-> "MATIC", currency |-> "USD", base_name |-> "Polygon"],
      [base |-> "SOL", currency |-> "USD", base_name |-> "Solana"],
      [base |-> "BTC", currency |-> "CAD", base_name |-> "Bitcoin"],
      [base |-> "ETH", currency |-> "CAD", base_name |-> "Ethereum"],
      [base |-> "ADA", currency |-> "CAD", base_name |-> "Cardano"],
      [base |-> "MATIC", currency |-> "CAD", base_name |-> "Polygon"],
      [base |-> "SOL", currency |-> "CAD", base_name |-> "Solana"]>>

\* a JSON string float() converts, by the amount it denotes in cents
NumStr(c) == [t |-> "numstr", cents |-> c]

\* the amount a good answer quotes: "1.5"
QuotedCents == 150

\* values of 'currency' and of 'amount' in the 'data' object of an answer
SpotCurrencies == {Absent, Field(Null), Field(Text("")),
                   Field(Text("USD")), Field(Text("CAD"))}
SpotAmounts == {Absent, Field(Null), Field(Str), Field(NumStr(QuotedCents))}

\* the answer of the endpoint when all is well: the quote in the currency of
\* the pairing
GoodAnswer(p) ==
    [kind |-> "json",
     data |-> Field(Object([currency |-> Field(Text(p.currency)),
                            amount |-> Field(NumStr(QuotedCents))]))]

\* answers of the spot-price endpoint for pairing p: a transport/HTTP error, a
\* body that is not JSON, a JSON object without 'data' or with a 'data' that
\* is no object, or one with a 'data' object that is the good one but for at
\* most one of its two members
SpotResponses(p) ==
    {[kind |-> "network_error"], [kind |-> "not_json"]}
    \cup {[kind |-> "json", data |-> d] : d \in {Absent, Field(Null)}}
    \cup {[kind |-> "json",
           data |-> Field(Object([currency |-> c,
                                  amount |-> Field(NumStr(QuotedCents))]))] :
            c \in SpotCurrencies}
    \cup {[kind |-> "json",
           data |-> Field(Object([currency |-> Field(Text(p.currency)),
                                  amount |-> a]))] :
            a \in SpotAmounts}

\* answers the environment can give to the request for pairing p: an upstream
\* that is down fails every request, one that is up gives at most oddLeft
\* further answers other than the good one
SpotAnswers(p) ==
    IF down THEN {[kind |-> "network_error"]}
    ELSE {r \in SpotResponses(p) : r = GoodAnswer(p) \/ oddLeft > 0}

\* dict.get(key): None for a missing member and for JSON null
Get(field) == IF field.present THEN PyValue(field.value) ELSE None

\* f"{amount_float:.2f}": <<units, hundredths>>
Format2f(cents) == <<cents \div 100, cents % 100>>

FailureLine(base_name, currency, text) ==
    [kind |-> "failure", base_name |-> base_name, currency |-> currency,
     text |-> text]

\* a body that is not JSON handled by the clause for a RequestException
CoinLine_FormatAsNetwork(p, resp) ==
    IF resp.kind \in {"network_error", "not_json"}
    THEN FailureLine(p.base_name, p.currency, "Data unavailable (network)")
    ELSE IF ~resp.data.present \/ resp.data.value.t # "object"
    THEN FailureLine(p.base_name, p.currency, "Data format error")
    ELSE LET currency == Get(resp.data.value.members.currency)
             amount_str == Get(resp.data.value.members.amount)
         IN IF currency = None \/ currency = Some(Text("")) \/ amount_str = None
            THEN FailureLine(p.base_name, p.currency, "Data incomplete")
            ELSE IF amount_str = Some(Str)
            THEN FailureLine(p.base_name, currency[1].s, "Invalid price data")
            ELSE [kind |-> "price", base_name |-> p.base_name,
                  amount |-> Format2f(amount_str[1].cents),
                  country_emoji |-> IF currency[1].s = "CAD" THEN ":Canada:"
                                    ELSE ":United_States:",
                  currency |-> currency[1].s]

\* the line one iteration of coin's loop appends for pairing p and answer resp
CoinLine(p, resp) ==
    IF resp.kind = "network_error"
    THEN FailureLine(p.base_name, p.currency, "Data unavailable (network)")
    ELSE IF resp.kind = "not_json"
    THEN FailureLine(p.base_name, p.currency, "Data unavailable (format)")
    ELSE IF ~resp.data.present \/ resp.data.value.t # "object"
    THEN FailureLine(p.base_name, p.currency, "Data format error")
    ELSE LET currency == Get(resp.data.value.members.currency)
             amount_str == Get(resp.data.value.members.amount)
         IN IF currency = None \/ currency = Some(Text("")) \/ amount_str = None
            THEN FailureLine(p.base_name, p.currency, "Data incomplete")
            ELSE IF amount_str = Some(Str)
            THEN FailureLine(p.base_name, currency[1].s, "Invalid price data")
            ELSE [kind |-> "price", base_name |-> p.base_name,
                  amount |-> Format2f(amount_str[1].cents),
                  country_emoji |-> IF currency[1].s = "CAD" THEN ":Canada:"
                                    ELSE ":United_States:",
                  currency |-> currency[1].s]

\* a loop that a failed pairing ends
CoinLoopDone_AbortOnFailure(i, line) ==
    i = Len(pairings_to_fetch) \/ line.kind = "failure"

\* the for-loop has gone through pairings_to_fetch; every branch of its body,
\* the handlers of the exceptions included, falls through to the next pairing
CoinLoopDone(i, line) == i = Len(pairings_to_fetch)

\* a report that leaves the failure lines out
coin_report_OnlyPrices(parts) ==
    IF parts = <<>>
    THEN [kind |-> "coin_unavailable",
          msg |-> "Could not retrieve any cryptocurrency prices at this time. Please try again later."]
    ELSE [kind |-> "coin_report",
          lines |-> SelectSeq(parts, LAMBDA l : l.kind = "price")]

\* what coin returns for the lines it has collected
coin_report(parts) ==
    IF parts = <<>>
    THEN [kind |-> "coin_unavailable",
          msg |-> "Could not retrieve any cryptocurrency prices at this time. Please try again later."]
    ELSE [kind |-> "coin_report", lines |-> parts]

CallCoin ==
    /\ call = "idle"
    /\ call' = "coin"
    /\ pc' = "coin_loop"
    /\ result_parts' = <<>>
    /\ requested' = <<>>
    /\ down' \in BOOLEAN
    /\ oddLeft' = MaxOdd
    /\ UNCHANGED <<cfgVars, today, walkVars, lastResp, closedLeft, ytdVars,
                   fetchVars, hookVars, ret>>

\* one iteration of the loop, and the return after the last one
CoinStep ==
    /\ call = "coin"
    /\ pc = "coin_loop"
    /\ LET i == Len(requested) + 1
           p == pairings_to_fetch[i]
       IN \E resp \in SpotAnswers(p) :
            LET line == CoinLine(p, resp)
                parts == Append(result_parts, line)
            IN /\ requested' = Append(requested, [pairing |-> p, answer |-> resp])
               /\ result_parts' = parts
               /\ oddLeft' = IF down \/ resp = GoodAnswer(p) THEN oddLeft
                             ELSE oddLeft - 1
               /\ IF CoinLoopDone(i, line)
                  THEN pc' = "done" /\ ret' = coin_report(parts)
                  ELSE pc' = pc /\ ret' = ret
    /\ UNCHANGED <<cfgVars, today, call, walkVars, lastResp, closedLeft, down,
                   ytdVars, fetchVars, hookVars>>

----------------------------------------------------------------------------
(* webhook *)

OK_RESPONSE == [statusCode |-> 200]
ERROR_RESPONSE == [statusCode |-> 400]

\* first words of a message, in pieces: commands of the bot in either case,
\* with and without the bot's name, a command the bot does not know, a word
\* that is no command
CommandWords ==
    {<<"/ytd">>, <<"/YTD">>, <<"/ytd", "@BabaMuskBot">>, <<"/desc">>,
     <<"/desc", "@babamuskbot">>, <<"/coin">>, <<"/hello">>, <<"/start">>,
     <<"/guide">>, <<"/stop">>, <<"hi">>}

\* what follows the first word, split at single spaces: a word is a ticker as
\* users type it, or empty where two spaces meet or the text ends in a space
ArgumentWords ==
    {<<>>, <<<<"a">>>>, <<<<"$", "a">>>>, <<<<"a">>, <<"$", "a">>>>,
     <<<<>>, <<"a">>>>, <<<<"a">>, <<>>>>, <<<<>>>>}

\* update.message.text as the words between its single spaces
Texts == {<<c>> \o a : c \in CommandWords, a \in ArgumentWords}

Chats == {1, 2}

\* the update of the body: without a message, with a message without text,
\* with a text
Updates ==
    {[kind |-> "update", content |-> c, chat |-> ch, from_user |-> u] :
        c \in {[t |-> "no_message"], [t |-> "no_text"]}
              \cup {[t |-> "text", words |-> w] : w \in Texts},
        ch \in Chats, u \in {None, Some("Ann")}}

\* event.get('body'): missing or empty, no JSON, JSON that is no update, an
\* update
Bodies ==
    {[kind |-> "none"], [kind |-> "not_json"], [kind |-> "not_update"]}
    \cup Updates

Events == {[httpMethod |-> m, body |-> b] : m \in {"POST", "GET"}, b \in Bodies}

\* str.strip() on the words of a text: the empty words at both ends go
RECURSIVE LeftStrip(_)
LeftStrip(words) ==
    IF Len(words) > 1 /\ Head(words) = <<>> THEN LeftStrip(Tail(words))
    ELSE words

RECURSIVE RightStrip(_)
RightStrip(words) ==
    IF Len(words) > 1 /\ words[Len(words)] = <<>>
    THEN RightStrip(SubSeq(words, 1, Len(words) - 1))
    ELSE words

\* text.strip().split(' ')
command_parts(words) == RightStrip(LeftStrip(words))

LowerPiece(c) ==
    IF c = "/YTD" THEN "/ytd"
    ELSE IF c = "@BabaMuskBot" THEN "@babamuskbot"
    ELSE c

\* command_parts[0].lower().replace('@babamuskbot', '')
NormalCommand(word) ==
    SelectSeq([i \in 1..Len(word) |-> LowerPiece(word[i])],
              LAMBDA c : c # "@babamuskbot")

Static(msg) == [kind |-> "static", msg |-> msg]

Reply(text) == [act |-> "reply", text |-> text]
Invoke(fn, arg) == [act |-> "call", fn |-> fn, arg |-> arg]
NoReply == [act |-> "none"]

handle_ytd_prompt == Static("Please provide a ticker symbol, e.g., /ytd AMZN")
handle_desc_prompt == Static("Please provide a ticker symbol, e.g., /desc AMZN")

\* a handler that takes the first of several tickers
handle_ytd_command_TakesFirst(ytd_args) ==
    IF ytd_args = <<>> THEN Reply(handle_ytd_prompt)
    ELSE Invoke("ytd", ytd_args[1])

handle_ytd_command(ytd_args) ==
    IF ytd_args = <<>> THEN Reply(handle_ytd_prompt)
    ELSE IF Len(ytd_args) > 1
    THEN Reply(Static("/ytd only supports 1 ticker symbol at a time."))
    ELSE Invoke("ytd", ytd_args[1])

handle_desc_command(desc_args) ==
    IF desc_args = <<>> THEN Reply(handle_desc_prompt)
    ELSE IF Len(desc_args) > 1
    THEN Reply(Static("/desc only supports 1 ticker symbol at a time."))
    ELSE Invoke("describe", desc_args[1])

handle_hello(sender_name) == [kind |-> "hello", sender_name |-> sender_name]

handle_guide == Static("You can use the following commands: ...")

\* the keys of command_map
Commands ==
    {<<"/hello">>, <<"/start">>, <<"/ytd">>, <<"/coin">>, <<"/desc">>,
     <<"/guide">>}

\* a routing that answers a command it does not know
Route_AnswersUnknown(command, args, sender_name) ==
    IF command \in Commands
    THEN IF command = <<"/ytd">> /\ args = <<>> THEN Reply(handle_ytd_prompt)
         ELSE IF command = <<"/desc">> /\ args = <<>> THEN Reply(handle_desc_prompt)
         ELSE IF command = <<"/ytd">> THEN handle_ytd_command(args)
         ELSE IF command = <<"/desc">> THEN handle_desc_command(args)
         ELSE IF command = <<"/coin">> THEN Invoke("coin", <<>>)
         ELSE IF command = <<"/guide">> THEN Reply(handle_guide)
         ELSE Reply(handle_hello(sender_name))
    ELSE IF command # <<>> /\ command[1] = "/stop"
    THEN Reply(Static("Unknown command"))
    ELSE NoReply

\* the command routing: the reply, the handler to call, or nothing
Route(command, args, sender_name) ==
    IF command \in Commands
    THEN IF command = <<"/ytd">> /\ args = <<>> THEN Reply(handle_ytd_prompt)
         ELSE IF command = <<"/desc">> /\ args = <<>> THEN Reply(handle_desc_prompt)
         ELSE IF command = <<"/ytd">> THEN handle_ytd_command(args)
         ELSE IF command = <<"/desc">> THEN handle_desc_command(args)
         ELSE IF command = <<"/coin">> THEN Invoke("coin", <<>>)
         ELSE IF command = <<"/guide">> THEN Reply(handle_guide)
         ELSE Reply(handle_hello(sender_name))
    ELSE NoReply

\* the strings ytd, describe and coin return, by the return statement
Outcomes(fn) ==
    IF fn = "ytd"
    THEN {"config_error", "value_error", "no_first_date", "no_last_date",
          "pricing_failed", "price_format_error", "zero_open", "report"}
    ELSE IF fn = "describe"
    THEN {"config_error", "value_error", "describe_network_error",
          "describe_format_error", "no_description", "description"}
    ELSE {"coin_report"}

\* the request is rejected or acknowledged before any routing
Unrouted(ev) ==
    \/ ev.httpMethod # "POST"
    \/ ev.body.kind # "update"
    \/ ev.body.content.t # "text"

\* a webhook that does not test the method of the request
CallWebhook_NoMethodTest ==
    /\ call = "idle"
    /\ call' = "webhook"
    /\ \E ev \in Events :
         /\ event' = ev
         /\ IF ev.body.kind = "none"
            THEN /\ pc' = "done" /\ ret' = ERROR_RESPONSE
                 /\ UNCHANGED <<handlerCalls, response_text>>
            ELSE IF ev.body.kind \in {"not_json", "not_update"}
            THEN /\ pc' = "done" /\ ret' = ERROR_RESPONSE
                 /\ UNCHANGED <<handlerCalls, response_text>>
            ELSE IF ev.body.content.t # "text"
            THEN /\ pc' = "done" /\ ret' = OK_RESPONSE
                 /\ UNCHANGED <<handlerCalls, response_text>>
            ELSE LET parts == command_parts(ev.body.content.words)
                     command == NormalCommand(parts[1])
                     args == Tail(parts)
                     sender_name == IF ev.body.from_user = None THEN "User"
                                    ELSE ev.body.from_user[1]
                     route == Route(command, args, sender_name)
                 IN /\ ret' = ret
                    /\ IF route.act = "call"
                       THEN /\ pc' = "handler"
                            /\ handlerCalls' =
                                 Append(handlerCalls,
                                        [fn |-> route.fn, arg |-> route.arg])
                            /\ response_text' = response_text
                       ELSE /\ pc' = "send"
                            /\ handlerCalls' = handlerCalls
                            /\ response_text' = IF route.act = "reply"
                                                THEN Some(route.text) ELSE None
    /\ UNCHANGED <<cfgVars, today, walkVars, lastResp, envVars, ytdVars,
                   fetchVars, coinVars, sent>>

\* webhook up to the call of the command's handler
CallWebhook ==
    /\ call = "idle"
    /\ call' = "webhook"
    /\ \E ev \in Events :
         /\ event' = ev
         /\ IF ev.httpMethod # "POST" \/ ev.body.kind = "none"
            THEN /\ pc' = "done" /\ ret' = ERROR_RESPONSE
                 /\ UNCHANGED <<handlerCalls, response_text>>
            ELSE IF ev.body.kind \in {"not_json", "not_update"}
            THEN /\ pc' = "done" /\ ret' = ERROR_RESPONSE
                 /\ UNCHANGED <<handlerCalls, response_text>>
            ELSE IF ev.body.content.t # "text"
            THEN /\ pc' = "done" /\ ret' = OK_RESPONSE
                 /\ UNCHANGED <<handlerCalls, response_text>>
            ELSE LET parts == command_parts(ev.body.content.words)
                     command == NormalCommand(parts[1])
                     args == Tail(parts)
                     sender_name == IF ev.body.from_user = None THEN "User"
                                    ELSE ev.body.from_user[1]
                     route == Route(command, args, sender_name)
                 IN /\ ret' = ret
                    /\ IF route.act = "call"
                       THEN /\ pc' = "handler"
                            /\ handlerCalls' =
                                 Append(handlerCalls,
                                        [fn |-> route.fn, arg |-> route.arg])
                            /\ response_text' = response_text
                       ELSE /\ pc' = "send"
                            /\ handlerCalls' = handlerCalls
                            /\ response_text' = IF route.act = "reply"
                                                THEN Some(route.text) ELSE None
    /\ UNCHANGED <<cfgVars, today, walkVars, lastResp, envVars, ytdVars,
                   fetchVars, coinVars, sent>>

\* the handler returns its string
WebhookHandler ==
    /\ call = "webhook"
    /\ pc = "handler"
    /\ LET fn == handlerCalls[Len(handlerCalls)].fn
       IN \E k \in Outcomes(fn) :
            response_text' = Some([kind |-> "result", of |-> fn, outcome |-> k])
    /\ pc' = "send"
    /\ UNCHANGED <<cfgVars, today, call, walkVars, lastResp, envVars, ytdVars,
                   fetchVars, coinVars, event, handlerCalls, sent, ret>>

\* bot.sendMessage, which may raise, and the return of OK_RESPONSE
WebhookSend ==
    /\ call = "webhook"
    /\ pc = "send"
    /\ IF response_text # None
       THEN \E outcome \in {"sent", "TelegramError", "Exception"} :
               sent' = Append(sent, [chat_id |-> event.body.chat,
                                     text |-> response_text[1],
                                     outcome |-> outcome])
       ELSE sent' = sent
    /\ pc' = "done"
    /\ ret' = OK_RESPONSE
    /\ UNCHANGED <<cfgVars, today, call, walkVars, lastResp, envVars, ytdVars,
                   fetchVars, coinVars, event, handlerCalls, response_text>>

----------------------------------------------------------------------------

Init ==
    /\ apiKey \in BOOLEAN
    /\ startWd \in 0..6
    /\ leap \in BOOLEAN
    /\ today = 0
    /\ call = "idle"
    /\ pc = "idle"
    /\ current_date = 0
    /\ iter = 0
    /\ probes = <<>>
    /\ numRequests = 0
    /\ lastResp = NoResp
    /\ walkEnd = "running"
    /\ walkRet = None
    /\ closedLeft = Unlimited
    /\ down = FALSE
    /\ original_symbol = <<>>
    /\ symbol = <<>>
    /\ numLookups = 0
    /\ first_date = None
    /\ last_date = None
    /\ fetchKey = "open"
    /\ attempts = NoCounts
    /\ sleeps = NoCounts
    /\ first_day_open = None
    /\ last_day_close = None
    /\ divided = FALSE
    /\ result_parts = <<>>
    /\ requested = <<>>
    /\ oddLeft = 0
    /\ event = NoEvent
    /\ handlerCalls = <<>>
    /\ response_text = None
    /\ sent = <<>>
    /\ ret = None

\* the calendar functions called on their own
NextCal ==
    \/ CallFirstTradingDate
    \/ FirstStep
    \/ CallLastTradingDate
    \/ LastStep
    \/ Return

SpecCal == Init /\ [][NextCal]_vars

\* the commands that need the credential
Next ==
    \/ CallYtd
    \/ YtdValidate
    \/ FirstStep
    \/ YtdCallLast
    \/ LastStep
    \/ YtdCheckDates
    \/ FetchAttempt
    \/ YtdCompute
    \/ CallDescribe
    \/ DescribeValidate
    \/ DescribeFetch
    \/ Return

Spec == Init /\ [][Next]_vars

\* the statements of ytd after its first: ytd is sequential code that calls
\* blocking functions, so a statement that can run does run
YtdStep ==
    \/ YtdValidate
    \/ FirstStep
    \/ YtdCallLast
    \/ LastStep
    \/ YtdCheckDates
    \/ FetchAttempt
    \/ YtdCompute

\* one invocation of ytd from the call to the return
NextYtd ==
    \/ CallYtd
    \/ YtdStep

\* one invocation of ytd in which every request is answered or fails in
\* finite time
SpecYtdFair == Init /\ [][NextYtd]_vars /\ WF_vars(YtdStep)

\* the command that needs no credential
NextCoin ==
    \/ CallCoin
    \/ CoinStep
    \/ Return

SpecCoin == Init /\ [][NextCoin]_vars

\* all three commands
NextCommands ==
    \/ Next
    \/ NextCoin

SpecCommands == Init /\ [][NextCommands]_vars

\* the webhook of the bot, the strings of the commands taken as given
NextWebhook ==
    \/ CallWebhook
    \/ WebhookHandler
    \/ WebhookSend
    \/ Return

SpecWebhook == Init /\ [][NextWebhook]_vars

----------------------------------------------------------------------------
(* Properties of the calendar walks, checked under SpecCal *)

FirstReturned ==
    \/ call = "first_trading_date" /\ pc = "done"
    \/ call = "ytd" /\ pc = "first_returned"

LastReturned ==
    \/ call = "last_trading_date" /\ pc = "done"
    \/ call = "ytd" /\ pc = "last_returned"

InFirstWalk == FirstReturned \/ pc = "first_loop"
InLastWalk == LastReturned \/ pc = "last_loop"

IsWeekday(d) == Weekday(d) \in 0..4

ProbedAs(d, open) ==
    \E i \in 1..Len(probes) : probes[i] = [date |-> d, open |-> open]

NoProbeOpen == \A i \in 1..Len(probes) : ~probes[i].open

\* C1: first_trading_date returns the earliest Monday-Friday date of the
\* current year whose probe reports open: every earlier weekday of the year
\* was probed closed, so after N closed weekdays the result is the (N+1)-th
\* probed weekday; it returns None, and no date outside the year, exactly when
\* every weekday of the year was probed and none reported open.
C1_FirstIsEarliestOpen ==
    FirstReturned =>
        LET n == Len(probes)
            closed == {probes[i].date : i \in {j \in 1..n : ~probes[j].open}}
            weekdays == {e \in 0..(YearLen - 1) : IsWeekday(e)}
        IN IF walkRet # None
           THEN LET d == walkRet[1]
                IN /\ d \in weekdays
                   /\ probes[n] = [date |-> d, open |-> TRUE]
                   /\ \A i \in 1..(n - 1) : ~probes[i].open
                   /\ closed = {e \in weekdays : e < d}
                   /\ n = Cardinality({e \in weekdays : e < d}) + 1
           ELSE /\ NoProbeOpen
                /\ closed = weekdays
                /\ n = Cardinality(weekdays)

\* the year starts on a Saturday, the first two probed weekdays are closed and
\* the walk returns the third, Wednesday January 5
C1_Witness ==
    /\ call = "first_trading_date" /\ pc = "done"
    /\ startWd = 5
    /\ walkRet = Some(4)
    /\ Len(probes) = 3

\* C2: last_trading_date returns the latest Monday-Friday date at or before
\* today whose probe reports open, when the walk reaches it within its 14
\* iterations (weekend skips count): every weekday between the result and
\* today was probed closed; it returns None only after 14 iterations without
\* an open probe.
C2_LastIsLatestOpen ==
    LastReturned =>
        /\ iter <= 14
        /\ IF walkRet # None
           THEN LET d == walkRet[1]
                IN /\ d <= today
                   /\ IsWeekday(d)
                   /\ ProbedAs(d, TRUE)
                   /\ probes[Len(probes)].date = d
                   /\ \A e \in (d + 1)..today : IsWeekday(e) => ProbedAs(e, FALSE)
           ELSE /\ iter = 14
                /\ NoProbeOpen
                /\ \A e \in (current_date + 1)..today :
                      IsWeekday(e) => ProbedAs(e, FALSE)

\* today is a Monday found closed; the walk steps over the weekend and
\* returns the Thursday before it, after Friday was found closed too
C2_Witness ==
    /\ call = "last_trading_date" /\ pc = "done"
    /\ Weekday(today) = 0
    /\ walkRet = Some(today - 4)
    /\ iter = 4

FirstCandidate == IF startWd = 5 THEN 2 ELSE IF startWd = 6 THEN 1 ELSE 0

LastCandidate ==
    IF Weekday(today) = 5 THEN today - 1
    ELSE IF Weekday(today) = 6 THEN today - 2
    ELSE today

\* C3: no walk probes a Saturday or a Sunday; a returned date is a
\* Monday-Friday date whose probe, made in the same walk, reported open; the
\* first probe of first_trading_date is for January 1 or, when that is a
\* Saturday or Sunday, the following Monday; the first probe of
\* last_trading_date is for today or, when that is a Saturday or Sunday, the
\* preceding Friday.
C3_OnlyWeekdaysProbed ==
    /\ \A i \in 1..Len(probes) : Weekday(probes[i].date) \notin {5, 6}
    /\ (FirstReturned \/ LastReturned) /\ walkRet # None =>
          /\ Weekday(walkRet[1]) \notin {5, 6}
          /\ ProbedAs(walkRet[1], TRUE)
    /\ InFirstWalk /\ Len(probes) > 0 => probes[1].date = FirstCandidate
    /\ InLastWalk /\ Len(probes) > 0 => probes[1].date = LastCandidate

\* today is a Sunday: the walk has skipped it and Saturday without a probe and
\* returns the Friday, its first probe
C3_Witness ==
    /\ call = "last_trading_date" /\ pc = "done"
    /\ Weekday(today) = 6
    /\ probes = <<[date |-> today - 2, open |-> TRUE]>>
    /\ walkRet = Some(today - 2)
    /\ iter = 2

ProbeFailed == lastResp.kind \in {"network_error", "not_json"}

\* C4: a failed probe (transport/HTTP error, body that is not JSON) counts as
\* closed for its date: the walk does not return that date, it moves one day
\* on (forward walk) or back (backward walk) and goes on unless that step
\* reaches its bound; no date is probed twice (the probed dates strictly
\* increase in the forward walk and strictly decrease in the backward walk); a walk returns None only at its
\* bound (the forward walk on leaving the year or after 366 iterations, the
\* backward walk after 14 iterations).
C4_FailedProbeIsClosed ==
    /\ (InFirstWalk \/ InLastWalk) /\ ProbeFailed =>
          LET p == probes[Len(probes)]
          IN /\ ~p.open
             /\ walkEnd # "found"
             /\ walkRet = None
             /\ current_date = IF InFirstWalk THEN p.date + 1 ELSE p.date - 1
             /\ InFirstWalk /\ current_date < YearLen /\ iter < 366 =>
                   pc = "first_loop"
             /\ InLastWalk /\ iter < 14 => pc = "last_loop"
    /\ \A i \in 1..(Len(probes) - 1) :
          IF InFirstWalk THEN probes[i].date < probes[i + 1].date
          ELSE probes[i].date > probes[i + 1].date
    /\ FirstReturned /\ walkRet = None =>
          /\ walkEnd \in {"crossed", "exhausted"}
          /\ current_date >= YearLen \/ iter = 366
    /\ LastReturned /\ walkRet = None =>
          /\ walkEnd = "exhausted"
          /\ iter = 14

\* January 1 was probed closed; the probe of the next weekday got a body that
\* is not JSON: the forward walk has moved one day on and goes on
C4_Witness ==
    /\ call = "first_trading_date" /\ pc = "first_loop"
    /\ lastResp = [kind |-> "not_json"]
    /\ Len(probes) = 2
    /\ ~probes[2].open
    /\ current_date = probes[2].date + 1
    /\ walkRet = <<>>

\* C5: implied_market_status reports open exactly when the response has
\* status 'OK' and an 'open' field, null included; 'NOT_FOUND', 'OK' without
\* the field and any other status, with or without the field, report closed.
C5_OpenIffOkWithField ==
    (InFirstWalk \/ InLastWalk) /\ lastResp.kind # "none" =>
        LET p == probes[Len(probes)]
        IN /\ p.open <=> /\ lastResp.kind = "json"
                         /\ lastResp.status = "OK"
                         /\ lastResp.field # [present |-> FALSE]
           /\ lastResp.kind = "json" /\ lastResp.status \in {"NOT_FOUND", "DELAYED"}
                 => ~p.open
           /\ lastResp = [kind |-> "json", status |-> "OK",
                          field |-> [present |-> TRUE, value |-> [t |-> "null"]]]
                 => p.open

\* a probe answered with status 'OK' and "open": null is reported open
C5_Witness ==
    /\ call = "last_trading_date" /\ pc = "done"
    /\ lastResp = [kind |-> "json", status |-> "OK",
                   field |-> [present |-> TRUE, value |-> [t |-> "null"]]]
    /\ probes[Len(probes)].open
    /\ walkRet = Some(probes[Len(probes)].date)

----------------------------------------------------------------------------
(* Properties of ytd's price fetches, checked under Spec *)

FetchKeys == {"open", "close"}

\* the latest step of ytd was an attempt of the fetch of key k
JustAttempted(k) ==
    /\ call = "ytd"
    /\ lastResp.kind # "none"
    /\ IF k = "open"
       THEN pc = "fetch" /\ (IF fetchKey = "open" THEN attempts.open > 0
                             ELSE attempts.close = 0)
       ELSE \/ pc = "fetch" /\ fetchKey = "close" /\ attempts.close > 0
            \/ pc = "compute"

\* the fetch of key k has returned to ytd
FetchReturned(k) ==
    /\ call = "ytd"
    /\ fetchKey = "close"
    /\ k = "close" => pc \in {"compute", "done"}

FetchResult(k) == IF k = "open" THEN first_day_open ELSE last_day_close

\* ytd has returned after both fetches
YtdComputed == call = "ytd" /\ pc = "done" /\ fetchKey = "close"

\* the answer carries the requested field and does not say NOT_FOUND
HasValue(resp) ==
    /\ resp.kind = "json"
    /\ resp.field # [present |-> FALSE]
    /\ resp.status # "NOT_FOUND"

\* the Python value of the field of the answer: None for JSON null
ValueOf(resp) ==
    IF resp.field.value = [t |-> "null"] THEN <<>> ELSE <<resp.field.value>>

\* C6: a price fetch makes at most 3 attempts; the first attempt that yields
\* an accepted value ends the fetch, which returns that value; a failed attempt
\* before the third does not end the fetch; the third failed attempt ends it
\* with the failure outcome None.
C6_AtMostThreeAttempts ==
    \A k \in FetchKeys :
        /\ attempts[k] \in 0..3
        /\ FetchReturned(k) => attempts[k] >= 1
        /\ JustAttempted(k) =>
              IF HasValue(lastResp)
              THEN FetchReturned(k) /\ FetchResult(k) = ValueOf(lastResp)
              ELSE IF attempts[k] < 3
              THEN ~FetchReturned(k)
              ELSE FetchReturned(k) /\ FetchResult(k) = <<>>

\* fail, fail, succeed: the opening-price fetch returns the value of its third
\* attempt
C6_Witness ==
    /\ JustAttempted("open")
    /\ attempts.open = 3
    /\ sleeps.open = 2
    /\ lastResp = [kind |-> "json", status |-> "OK",
                   field |-> [present |-> TRUE, value |-> [t |-> "num", n |-> 2]]]
    /\ first_day_open = <<[t |-> "num", n |-> 2]>>
    /\ fetchKey = "close"

NotFound(resp) == resp.kind = "json" /\ resp.status = "NOT_FOUND"

\* C7 as claimed: an answer with status NOT_FOUND ends the fetch, with no
\* further attempt and no backoff wait after it.
C7_NotFoundIsTerminal ==
    \A k \in FetchKeys :
        JustAttempted(k) /\ NotFound(lastResp) =>
            /\ FetchReturned(k)
            /\ sleeps[k] = attempts[k] - 1

\* C7 as amended: an answer with status NOT_FOUND is never accepted and is
\* retried like every other failed attempt: unless it was the third attempt it
\* is followed by one backoff wait and the fetch goes on; the third failed
\* attempt ends the fetch with None and no wait. An accepted answer is followed
\* by no wait and no attempt.
C7_NotFoundIsRetried ==
    \A k \in FetchKeys :
        JustAttempted(k) =>
            IF NotFound(lastResp) \/ ~HasValue(lastResp)
            THEN IF attempts[k] < 3
                 THEN ~FetchReturned(k) /\ sleeps[k] = attempts[k]
                 ELSE FetchReturned(k) /\ FetchResult(k) = <<>> /\ sleeps[k] = 2
            ELSE FetchReturned(k) /\ sleeps[k] = attempts[k] - 1

\* the first answer says NOT_FOUND: the fetch has waited once and goes on
C7_Witness ==
    /\ JustAttempted("open")
    /\ NotFound(lastResp)
    /\ attempts.open = 1
    /\ sleeps.open = 1
    /\ pc = "fetch" /\ fetchKey = "open"

\* C8: an answer that carries the requested field is accepted as the value of
\* its attempt whatever its status (missing, 'OK', another) unless the status
\* is 'NOT_FOUND'; an answer with status 'NOT_FOUND' is never accepted, with
\* or without the field.
C8_LenientAcceptance ==
    \A k \in FetchKeys :
        JustAttempted(k) /\ lastResp.kind = "json" =>
            /\ lastResp.field.present /\ lastResp.status \in {"OK", "DELAYED", "absent"}
                  => FetchReturned(k) /\ FetchResult(k) = ValueOf(lastResp)
            /\ lastResp.status = "NOT_FOUND"
                  => IF attempts[k] < 3 THEN ~FetchReturned(k)
                     ELSE FetchResult(k) = <<>>

\* the closing price is taken from an answer without a status
C8_Witness ==
    /\ JustAttempted("close")
    /\ lastResp = [kind |-> "json", status |-> "absent",
                   field |-> [present |-> TRUE, value |-> [t |-> "num", n |-> 1]]]
    /\ attempts.close = 1
    /\ last_day_close = <<[t |-> "num", n |-> 1]>>
    /\ pc = "compute"

\* C9: if either price fetch ended in the failure outcome None, ytd returns
\* the 'Could not retrieve pricing data for <SYMBOL> after multiple attempts'
\* message with the upper-cased symbol and computes no percentage, also when
\* the other fetch returned a price.
C9_EitherFailureFailsYtd ==
    YtdComputed /\ (first_day_open = <<>> \/ last_day_close = <<>>) =>
        /\ ret = [kind |-> "pricing_failed", symbol |-> <<"A">>]
        /\ ~divided

\* the opening price was fetched, the closing-price fetch failed three times
C9_Witness ==
    /\ YtdComputed
    /\ first_day_open = <<[t |-> "num", n |-> 1]>>
    /\ last_day_close = <<>>
    /\ attempts.close = 3
    /\ ret.kind = "pricing_failed"

IsNumber(x) == x # <<>> /\ x[1].t = "num"

\* C10 as claimed: whenever the fetched opening price is zero ytd returns the
\* zero-opening-price message.
C10_ZeroOpenAlwaysRejected ==
    YtdComputed /\ first_day_open = <<[t |-> "num", n |-> 0]>> =>
        ret.kind = "zero_open"

\* C10 as amended: whenever the fetched opening price is zero and the
\* closing-price fetch returned a number, ytd returns the zero-opening-price
\* message naming the upper-cased symbol and the first trading date; with a
\* zero opening price the division is never evaluated and no error is raised,
\* whatever the closing-price fetch returned (a failed closing fetch gives the
\* pricing-failure message, a closing value that is no number the
\* price-processing message); the zero message is returned for no other
\* opening price.
C10_ZeroOpenRejected ==
    YtdComputed =>
        /\ ret.kind # "raised"
        /\ first_day_open = <<[t |-> "num", n |-> 0]>> =>
              /\ ~divided
              /\ IF IsNumber(last_day_close)
                 THEN ret = [kind |-> "zero_open", symbol |-> <<"A">>,
                             date |-> <<0, 1, first_date[1] + 1>>]
                 ELSE IF last_day_close = <<>>
                 THEN ret.kind = "pricing_failed"
                 ELSE ret.kind = "price_format_error"
        /\ ret.kind = "zero_open" => first_day_open = <<[t |-> "num", n |-> 0]>>
        /\ divided => IsNumber(first_day_open) /\ first_day_open[1].n # 0

\* opening price 0 and closing price 2: the zero-opening-price message
C10_Witness ==
    /\ YtdComputed
    /\ first_day_open = <<[t |-> "num", n |-> 0]>>
    /\ last_day_close = <<[t |-> "num", n |-> 2]>>
    /\ ret.kind = "zero_open"
    /\ ~divided

\* the fetched opening and closing prices, when both are numbers
OpenPrice == first_day_open[1].n
ClosePrice == last_day_close[1].n

----------------------------------------------------------------------------
(* Properties of the commands' error handling, checked under Spec and, for   *)
(* C12, SpecCommands                                                        *)

\* the fixed message of ytd and describe for a missing credential
ConfigError == [kind |-> "config_error"]

\* no request of any kind has been issued by the running call
NoUpstreamRequest ==
    /\ numLookups = 0
    /\ numRequests = 0
    /\ attempts = [open |-> 0, close |-> 0]
    /\ lastResp = [kind |-> "none"]

CoinReturned == call = "coin" /\ pc = "done"

\* C12: with no market-data credential configured, ytd and describe return
\* the fixed configuration-error message (they return, nothing is raised) and
\* issue no upstream request, neither a reference lookup nor a market-status
\* probe nor a price request; coin still requests its ten pairings and
\* returns its report of ten lines.
C12_NoCredential ==
    ~apiKey =>
        /\ call \in {"ytd", "describe"} =>
              /\ pc = "done"
              /\ ret = ConfigError
              /\ NoUpstreamRequest
        /\ CoinReturned =>
              /\ Len(requested) = 10
              /\ ret.kind = "coin_report"
              /\ Len(ret.lines) = 10

\* describe called without a credential has returned the message
C12_Witness ==
    /\ ~apiKey
    /\ call = "describe" /\ pc = "done"
    /\ original_symbol = <<"$", "a">>
    /\ ret = ConfigError
    /\ numLookups = 0

\* the call has returned right after the reference lookup of its validation
\* got an answer that says NOT_FOUND or carries no record
LookupSaidNotFound(fn) ==
    /\ call = fn /\ pc = "done"
    /\ numLookups = 1
    /\ lastResp.kind = "json"
    /\ lastResp.status = "NOT_FOUND" \/ lastResp.results = "null"

\* the text of ValueError("Ticker symbol '<input>' not found or invalid.")
NotFoundMessage(input) ==
    [kind |-> "value_error", error |-> "not_found", text |-> input]

\* C13: when the reference lookup reports NOT_FOUND or returns no record, ytd
\* returns the not-found message with the input exactly as typed, a leading
\* '$' included, after that one lookup, no market-status probe and no price
\* request; the message is returned in no other case.
C13_NotFoundEchoesInput ==
    /\ LookupSaidNotFound("ytd") =>
          /\ ret = NotFoundMessage(original_symbol)
          /\ numRequests = 0
          /\ probes = <<>>
          /\ attempts = [open |-> 0, close |-> 0]
    /\ call = "ytd" /\ ret # <<>> /\ ret.kind = "value_error"
       /\ ret.error = "not_found" => LookupSaidNotFound("ytd")

\* '$a' was typed and the lookup said NOT_FOUND: the message quotes '$a'
C13_Witness ==
    /\ LookupSaidNotFound("ytd")
    /\ lastResp.status = "NOT_FOUND"
    /\ original_symbol = <<"$", "a">>
    /\ ret.text = <<"$", "a">>

NoPriceRequest == attempts = [open |-> 0, close |-> 0]

\* C14: if first_trading_date is undetermined ytd returns the message naming
\* the first trading date of the year, also when last_trading_date is
\* undetermined too; otherwise, if last_trading_date is undetermined, it
\* returns the message naming the most recent trading date; in both cases no
\* price request is issued, and with both dates determined neither message is
\* returned.
C14_UndeterminedDates ==
    call = "ytd" /\ pc \in {"fetch", "compute", "done"} /\ symbol # <<>> =>
        IF first_date = <<>>
        THEN /\ pc = "done"
             /\ ret = [kind |-> "no_first_date", symbol |-> <<"A">>]
             /\ NoPriceRequest
        ELSE IF last_date = <<>>
        THEN /\ pc = "done"
             /\ ret = [kind |-> "no_last_date", symbol |-> <<"A">>]
             /\ NoPriceRequest
        ELSE ret = <<>> \/ ret.kind \notin {"no_first_date", "no_last_date"}

\* the upstream was down during both walks: the message names the first
\* trading date
C14_Witness ==
    /\ call = "ytd" /\ pc = "done"
    /\ first_date = <<>> /\ last_date = <<>>
    /\ walkEnd = "exhausted"
    /\ ret.kind = "no_first_date"
    /\ attempts = [open |-> 0, close |-> 0]

----------------------------------------------------------------------------
(* Properties of coin, checked under SpecCoin *)

\* the ten pairings and their display names, in the order of the list
ListedPairings ==
    <<<<"BTC", "USD", "Bitcoin">>, <<"ETH", "USD", "Ethereum">>,
      <<"ADA", "USD", "Cardano">>, <<"MATIC", "USD", "Polygon">>,
      <<"SOL", "USD", "Solana">>, <<"BTC", "CAD", "Bitcoin">>,
      <<"ETH", "CAD", "Ethereum">>, <<"ADA", "CAD", "Cardano">>,
      <<"MATIC", "CAD", "Polygon">>, <<"SOL", "CAD", "Solana">>>>

\* the kind of failure of an answer of the spot-price endpoint, "none" for an
\* answer that quotes a price; a member that is null, and a currency that is
\* empty, count as missing
FailureKind(a) ==
    IF a.kind = "network_error" THEN "transport"
    ELSE IF a.kind = "not_json" THEN "not_json"
    ELSE IF a.data = [present |-> FALSE] \/ a.data.value.t # "object"
    THEN "no_data_object"
    ELSE LET m == a.data.value.members
         IN IF \/ m.currency = [present |-> FALSE]
               \/ m.currency.value \in {[t |-> "null"], [t |-> "text", s |-> ""]}
               \/ m.amount = [present |-> FALSE]
               \/ m.amount.value = [t |-> "null"]
            THEN "incomplete"
            ELSE IF m.amount.value.t # "numstr" THEN "non_numeric"
            ELSE "none"

Quoted(a) == FailureKind(a) = "none"

Answer(i) == requested[i].answer

AllFailed == \A i \in 1..Len(requested) : ~Quoted(Answer(i))

\* C15 as claimed: if all ten pairings fail, coin returns the single generic
\* 'Could not retrieve any cryptocurrency prices at this time' message and no
\* per-pairing failure lines.
C15_AllFailedGeneric ==
    CoinReturned /\ Len(requested) = 10 /\ AllFailed =>
        ret.kind = "coin_unavailable"

\* C16: coin issues exactly one spot-price request for each of the ten
\* pairings, in the order of the list, whatever the earlier answers: the n-th
\* request is for the n-th pairing, the loop goes on after every answer until
\* the tenth, and coin returns right after the tenth.
C16_EveryPairingOnce ==
    call = "coin" =>
        /\ Len(requested) <= 10
        /\ \A i \in 1..Len(requested) :
              <<requested[i].pairing.base, requested[i].pairing.currency,
                requested[i].pairing.base_name>> = ListedPairings[i]
        /\ Len(result_parts) = Len(requested)
        /\ pc = "done" <=> Len(requested) = 10

\* the third request got a body that is no JSON from an upstream that is up:
\* the seven pairings after it were requested all the same
C16_Witness ==
    /\ CoinReturned
    /\ ~down
    /\ Len(requested) = 10
    /\ Answer(3) = [kind |-> "not_json"]
    /\ \A i \in (1..10) \ {3} : Quoted(Answer(i))

\* C17: when at least one pairing succeeds, coin's report has exactly one line
\* per pairing, in the order of the list, the i-th line being the success line
\* of the i-th pairing if its lookup succeeded and its failure line otherwise;
\* with exactly one failed pairing this is 10 lines, 9 successful and 1
\* failure-annotated.
C17_OneLinePerPairing ==
    CoinReturned /\ ~AllFailed =>
        /\ ret.kind = "coin_report"
        /\ Len(ret.lines) = 10
        /\ \A i \in 1..10 :
              /\ ret.lines[i].base_name = ListedPairings[i][3]
              /\ ret.lines[i].kind = IF Quoted(Answer(i)) THEN "price" ELSE "failure"
              /\ Quoted(Answer(i)) =>
                    /\ ret.lines[i].amount = <<1, 50>>
                    /\ ret.lines[i].currency
                         = Answer(i).data.value.members.currency.value.s
        /\ Cardinality({i \in 1..10 : ~Quoted(Answer(i))}) = 1 =>
              /\ Cardinality({i \in 1..10 : ret.lines[i].kind = "price"}) = 9
              /\ Cardinality({i \in 1..10 : ret.lines[i].kind = "failure"}) = 1

\* the answer for ADA-USD lacks the amount: its line, the third, is the
\* failure line, the other nine are price lines
C17_Witness ==
    /\ CoinReturned
    /\ Answer(3).kind = "json"
    /\ FailureKind(Answer(3)) = "incomplete"
    /\ ret.lines[3] = [kind |-> "failure", base_name |-> "Cardano",
                       currency |-> "USD", text |-> "Data incomplete"]
    /\ \A i \in (1..10) \ {3} : ret.lines[i].kind = "price"

FailureKinds ==
    {"transport", "not_json", "no_data_object", "incomplete", "non_numeric"}

\* the text that names each kind of failure in its line
FailureText(k) ==
    IF k = "transport" THEN "Data unavailable (network)"
    ELSE IF k = "not_json" THEN "Data unavailable (format)"
    ELSE IF k = "no_data_object" THEN "Data format error"
    ELSE IF k = "incomplete" THEN "Data incomplete"
    ELSE "Invalid price data"

\* C18: the line of a failed pairing names the kind of failure: a
\* transport/HTTP error gives 'Data unavailable (network)', a body that is not
\* JSON 'Data unavailable (format)', a missing or non-object 'data' field
\* 'Data format error', a missing currency or amount 'Data incomplete', a
\* non-numeric amount 'Invalid price data'; no two kinds share a text.
C18_FailureKindsDistinct ==
    /\ call = "coin" =>
          \A i \in 1..Len(requested) :
              LET k == FailureKind(Answer(i))
              IN IF k = "none" THEN result_parts[i].kind = "price"
                 ELSE /\ result_parts[i].kind = "failure"
                      /\ result_parts[i].text = FailureText(k)
                      /\ result_parts[i].base_name = ListedPairings[i][3]
    /\ \A k1, k2 \in FailureKinds : k1 # k2 => FailureText(k1) # FailureText(k2)

\* the amount of SOL-USD is no number: its line says 'Invalid price data'
C18_Witness ==
    /\ CoinReturned
    /\ FailureKind(Answer(5)) = "non_numeric"
    /\ result_parts[5] = [kind |-> "failure", base_name |-> "Solana",
                          currency |-> "USD", text |-> "Invalid price data"]

----------------------------------------------------------------------------
(* Properties of describe, checked under Spec *)

\* describe has returned after the request for the reference record
DescribeFetched == call = "describe" /\ pc = "done" /\ numLookups = 2

\* the description the answer carries, <<>> when the record or the field is
\* missing or null
RawDescription(a) ==
    IF a.results = [present |-> FALSE] \/ a.results.value = [t |-> "null"]
    THEN <<>>
    ELSE LET d == a.results.value.members.description
         IN IF d = [present |-> FALSE] \/ d.value = [t |-> "null"] THEN <<>>
            ELSE <<d.value.s>>

\* C19 as claimed: for a validated symbol describe returns the 'No
\* description found' message whenever the record or its description is
\* absent or null, a network-issue message on a transport/HTTP failure, a
\* different data-processing message on a non-JSON body, and otherwise the
\* upper-cased symbol paired with the raw description text.
C19_DescribeOutcomes ==
    DescribeFetched =>
        /\ ret.symbol = <<"A">>
        /\ IF lastResp.kind = "network_error"
           THEN ret.kind = "describe_network_error"
           ELSE IF lastResp.kind = "not_json"
           THEN ret.kind = "describe_format_error"
           ELSE IF RawDescription(lastResp) = <<>>
           THEN ret.kind = "no_description"
           ELSE /\ ret.kind = "description"
                /\ ret.description = RawDescription(lastResp)[1]

\* C19 as amended: as claimed, except that a description that is the empty
\* string is answered like a missing one, with the 'No description found'
\* message; the messages for no description, for a network issue and for a
\* body that is not JSON are pairwise different, and each is returned in its
\* own case only.
C19_DescribeOutcomesEmptyIsNone ==
    DescribeFetched =>
        /\ ret.symbol = <<"A">>
        /\ IF lastResp.kind = "network_error"
           THEN /\ ret.kind = "describe_network_error"
                /\ ret.msg = "\nCould not fetch description for {ticker.upper()} due to a network issue.\n"
           ELSE IF lastResp.kind = "not_json"
           THEN /\ ret.kind = "describe_format_error"
                /\ ret.msg = "\nError processing company description data for {ticker.upper()}.\n"
           ELSE IF RawDescription(lastResp) \in {<<>>, <<"">>}
           THEN /\ ret.kind = "no_description"
                /\ ret.msg = "\nNo description found for {ticker.upper()}.\n"
           ELSE /\ ret.kind = "description"
                /\ ret.description = RawDescription(lastResp)[1]
                /\ ret.msg = "\n<b>{0}</b>\n{1}\n"
        /\ "\nNo description found for {ticker.upper()}.\n"
              # "\nCould not fetch description for {ticker.upper()} due to a network issue.\n"
        /\ "\nNo description found for {ticker.upper()}.\n"
              # "\nError processing company description data for {ticker.upper()}.\n"
        /\ "\nCould not fetch description for {ticker.upper()} due to a network issue.\n"
              # "\nError processing company description data for {ticker.upper()}.\n"

\* '$a' was validated and the record carries a description: describe returns
\* 'A' with the text
C19_Witness ==
    /\ DescribeFetched
    /\ original_symbol = <<"$", "a">>
    /\ lastResp.kind = "json"
    /\ RawDescription(lastResp) = <<"about">>
    /\ ret.kind = "description"
    /\ ret.symbol = <<"A">>
    /\ ret.description = "about"

----------------------------------------------------------------------------
(* Properties of webhook, checked under SpecWebhook *)

\* webhook was called with a POST of an update that carries a text
TextReceived ==
    /\ call = "webhook"
    /\ event.httpMethod = "POST"
    /\ event.body.kind = "update"
    /\ event.body.content.t = "text"

Words == event.body.content.words

\* the spellings of a command that the bot takes for it
Spellings(fn) ==
    IF fn = "ytd" THEN {<<"/ytd">>, <<"/YTD">>, <<"/ytd", "@BabaMuskBot">>}
    ELSE {<<"/desc">>, <<"/desc", "@babamuskbot">>}

\* the arguments of the command: the words after the first, split at single
\* spaces, up to the last word that is not empty; two spaces in a row make an
\* empty argument
Arguments ==
    LET last == CHOOSE i \in 1..Len(Words) :
                   /\ i = 1 \/ Words[i] # <<>>
                   /\ \A j \in (i + 1)..Len(Words) : Words[j] = <<>>
    IN SubSeq(Words, 2, last)

CommandName(fn) == IF fn = "ytd" THEN "/ytd" ELSE "/desc"

Prompt(fn) ==
    IF fn = "ytd"
    THEN [kind |-> "static", msg |-> "Please provide a ticker symbol, e.g., /ytd AMZN"]
    ELSE [kind |-> "static", msg |-> "Please provide a ticker symbol, e.g., /desc AMZN"]

Rejection(fn) ==
    IF fn = "ytd"
    THEN [kind |-> "static", msg |-> "/ytd only supports 1 ticker symbol at a time."]
    ELSE [kind |-> "static", msg |-> "/desc only supports 1 ticker symbol at a time."]

\* webhook has made its one call of bot.sendMessage with this text and
\* returned
Replied(text) ==
    pc = "done" => Len(sent) = 1 /\ sent[1].text = text

KnownSpellings ==
    {<<"/ytd">>, <<"/YTD">>, <<"/ytd", "@BabaMuskBot">>, <<"/desc">>,
     <<"/desc", "@babamuskbot">>, <<"/coin">>, <<"/hello">>, <<"/start">>,
     <<"/guide">>}

\* webhook was called with a POST whose body is an update
UpdateReceived ==
    /\ call = "webhook"
    /\ event.httpMethod = "POST"
    /\ event.body.kind = "update"

Malformed ==
    \/ event.httpMethod # "POST"
    \/ event.body.kind = "none"
    \/ event.body.kind = "not_json"

----------------------------------------------------------------------------
(* Properties of parse_and_validate_ticker_symbol, checked under Spec *)

\* the same ticker typed the other way: with the '$' or without it
OtherSpelling(str) ==
    IF str # <<>> /\ str[1] = "$" THEN Tail(str) ELSE <<"$">> \o str

\* ytd or describe called parse_and_validate_ticker_symbol, which raised
ValidationFailed ==
    /\ call \in {"ytd", "describe"}
    /\ pc = "done"
    /\ ret.kind = "value_error"

\* ytd or describe called parse_and_validate_ticker_symbol, which returned
ValidationPassed ==
    /\ call \in {"ytd", "describe"}
    /\ symbol # <<>>

\* the lookup answers under which the parser returns for the text typed
PassingAnswers ==
    {r \in LookupResponses :
        parse_and_validate_ticker_symbol(original_symbol, r).ok}

\* C23 as claimed: under the same lookup answer the parser gives the same
\* result for a symbol typed with a leading '$' and typed without it: the same
\* returned symbol, or the same ValueError.
C23_DollarSameResult ==
    /\ ValidationPassed =>
          \A r \in PassingAnswers :
              parse_and_validate_ticker_symbol(OtherSpelling(original_symbol), r)
                  = [ok |-> TRUE, symbol |-> symbol]
    /\ ValidationFailed =>
          parse_and_validate_ticker_symbol(OtherSpelling(original_symbol),
                                           lastResp)
              = [ok |-> FALSE, error |-> ret.error, text |-> ret.text]

\* C23 amended: for a symbol s without a leading '$', under the same lookup
\* answer the parser returns for '$' + s exactly when it returns for s, and
\* then returns the same symbol, s, which the callers use from then on; when
\* it raises, it raises the same kind of ValueError for both, with a message
\* that quotes the text as typed, so the two messages differ in the '$'.
C23_DollarSameSymbol ==
    /\ ValidationPassed =>
          /\ symbol[1] # "$"
          /\ symbol \in {original_symbol, OtherSpelling(original_symbol)}
          /\ \A r \in PassingAnswers :
                parse_and_validate_ticker_symbol(
                    OtherSpelling(original_symbol), r)
                    = [ok |-> TRUE, symbol |-> symbol]
    /\ ValidationFailed =>
          LET other == parse_and_validate_ticker_symbol(
                           OtherSpelling(original_symbol), lastResp)
          IN /\ ~other.ok
             /\ other.error = ret.error
             /\ ret.text = original_symbol
             /\ other.text = OtherSpelling(original_symbol)
             /\ other.text # ret.text

\* ytd was called with '$a', the lookup returned a record, and ytd goes on
\* with 'a'
C23_Witness ==
    /\ call = "ytd"
    /\ pc = "first_loop"
    /\ original_symbol = <<"$", "a">>
    /\ symbol = <<"a">>
    /\ numLookups = 1

----------------------------------------------------------------------------
(* Termination of ytd, checked under SpecYtdFair *)

\* the strings ytd returns, by the return statement
YtdReportKinds ==
    {"config_error", "value_error", "no_first_date", "no_last_date",
     "pricing_failed", "price_format_error", "zero_open", "report"}

YtdReturned ==
    /\ call = "ytd"
    /\ pc = "done"
    /\ ret # None
    /\ ret.kind \in YtdReportKinds

\* the requests one invocation of ytd has issued stay within the bounds of its
\* loops
YtdWithinBounds ==
    call = "ytd" =>
        /\ numLookups <= 1
        /\ pc \in {"first_loop", "first_returned"} =>
              numRequests <= iter /\ iter <= 366
        /\ pc \in {"last_loop", "last_returned"} =>
              numRequests <= iter /\ iter <= 14
        /\ attempts.open <= 3
        /\ attempts.close <= 3
        /\ pc = "done" => ret # None /\ ret.kind \in YtdReportKinds

----------------------------------------------------------------------------
(* Properties of the steps of the price fetches, checked under Spec *)

\* this step is an attempt of the fetch of key k
Attempts(k) == call = "ytd" /\ attempts'[k] = attempts[k] + 1

\* this step is a backoff wait of the fetch of key k
Waits(k) == call = "ytd" /\ sleeps'[k] = sleeps[k] + 1

\* C25: a fetch waits only as part of a failed attempt that is not its third:
\* every wait follows an attempt whose answer was not accepted and that was
\* the first or the second; every such attempt is followed by exactly one
\* wait; an attempt whose answer was accepted and the third attempt are
\* followed by none; so a fetch waits at most twice.
C25_WaitOnlyBetweenAttempts ==
    [][\A k \in FetchKeys :
          /\ Waits(k) =>
                Attempts(k) /\ ~HasValue(lastResp') /\ attempts'[k] < 3
          /\ Attempts(k) =>
                sleeps'[k] = IF ~HasValue(lastResp') /\ attempts'[k] < 3
                             THEN sleeps[k] + 1 ELSE sleeps[k]
          /\ ~Attempts(k) /\ call' = "ytd" => sleeps'[k] = sleeps[k]
          /\ sleeps'[k] <= 2]_vars

\* the opening-price fetch failed three times and waited twice
C25_Witness ==
    /\ JustAttempted("open")
    /\ fetchKey = "close"
    /\ attempts = [open |-> 3, close |-> 0]
    /\ sleeps = [open |-> 2, close |-> 0]
    /\ first_day_open = <<>>
    /\ ~HasValue(lastResp)

\* this step is the return of the opening-price fetch to ytd
OpenFetchReturns == call = "ytd" /\ fetchKey = "open" /\ fetchKey' = "close"

\* this step of ytd evaluates the checks of the two prices and the percentage
Computes == call = "ytd" /\ pc = "compute" /\ pc' = "done"

\* C26: the two price fetches of ytd have attempt budgets of their own. With
\* the return of the opening-price fetch, whatever it returned and after
\* however many attempts, the closing-price fetch starts with no attempt used;
\* it ends only with an accepted answer of its own or with its own third
\* attempt; and ytd checks the prices and computes the percentage only in the
\* step after the closing-price fetch has returned, when both fetches have
\* made at least one attempt.
C26_IndependentBudgets ==
    [][/\ OpenFetchReturns =>
            /\ attempts'.open \in 1..3
            /\ attempts'.close = 0
            /\ pc' = "fetch"
       /\ Attempts("close") =>
            /\ fetchKey = "close"
            /\ attempts'.open = attempts.open
            /\ first_day_open' = first_day_open
            /\ pc' = IF ~HasValue(lastResp') /\ attempts'.close < 3
                     THEN "fetch" ELSE "compute"
       /\ call = "ytd" /\ pc' = "compute" => Attempts("close")
       /\ Computes =>
            /\ fetchKey = "close"
            /\ attempts.open >= 1 /\ attempts.close >= 1
            /\ attempts' = attempts
       /\ divided' /\ ~divided => Computes]_vars

\* the opening-price fetch failed three times; the closing-price fetch then
\* failed twice and got the price at its third attempt
C26_Witness ==
    /\ JustAttempted("close")
    /\ pc = "compute"
    /\ first_day_open = <<>>
    /\ attempts = [open |-> 3, close |-> 3]
    /\ sleeps = [open |-> 2, close |-> 2]
    /\ last_day_close = <<[t |-> "num", n |-> 1]>>

----------------------------------------------------------------------------
(* Properties of the dates ytd uses, checked under Spec *)

\* ytd has both dates and goes on to fetch the prices
FetchesPrices == call = "ytd" /\ pc \in {"fetch", "compute"}

\* C27: whenever ytd goes on to fetch prices, the first trading date it uses
\* is not later than the last trading date it uses and not later than today.
C27_FirstNotAfterLast ==
    FetchesPrices =>
        /\ first_date[1] <= last_date[1]
        /\ first_date[1] <= today

\* C28: ytd returns the pricing-failure message only if at least one of its
\* two price fetches made all 3 attempts, and a fetch that has returned the
\* failure outcome None has made 3 attempts.
C28_FailureOnlyAfterThree ==
    /\ YtdComputed /\ ret.kind = "pricing_failed" =>
          attempts.open = 3 \/ attempts.close = 3
    /\ \A k \in FetchKeys :
          FetchReturned(k) /\ FetchResult(k) = None => attempts[k] = 3

----------------------------------------------------------------------------
(* Bounds of the calendar walks, checked under SpecCal *)

\* C29: first_trading_date never ends by using up its 366 iterations: for
\* every year, leap or not and starting on any weekday, and every outcome of
\* the probes, the walk ends with a date or by moving into the next year,
\* which it does before 366 iterations are made; it returns None exactly when
\* it moved into the next year; and it probes at most 262 dates.
C29_NeverExhausted ==
    call = "first_trading_date" =>
        /\ walkEnd # "exhausted"
        /\ iter < 366
        /\ numRequests <= 262
        /\ Len(probes) <= 262
        /\ pc = "done" =>
              /\ walkEnd \in {"found", "crossed"}
              /\ walkEnd = "found" <=> walkRet # None
              /\ walkEnd = "crossed" => current_date >= YearLen

\* a leap year that starts on a Monday has 262 weekdays: all were probed, none
\* was open, and the walk ended in the next year
C29_Witness ==
    /\ call = "first_trading_date"
    /\ pc = "done"
    /\ leap /\ startWd = 0
    /\ walkEnd = "crossed"
    /\ walkRet = None
    /\ numRequests = 262
    /\ current_date = 366

\* C30: a date returned by last_trading_date is today or earlier and at most
\* 16 days before today, for today on every weekday and every outcome of the
\* probes, and one call probes at most 12 dates.
C30_LastWithinSixteenDays ==
    call = "last_trading_date" =>
        /\ numRequests <= 12
        /\ Len(probes) <= 12
        /\ pc = "done" /\ walkRet # None =>
              /\ walkRet[1] <= today
              /\ today - walkRet[1] <= 16

\* today is a Sunday and the walk returns the Friday 16 days before it, in
\* its fourteenth iteration
C30_Witness ==
    /\ call = "last_trading_date"
    /\ pc = "done"
    /\ Weekday(today) = 6
    /\ walkRet = Some(today - 16)
    /\ iter = 14
    /\ numRequests = 11

====
